---------------------------- MODULE Spec2Model ----------------------------
(***************************************************************************)
(* A model of src/src/main.rs: the Flappy Bird session state machine       *)
(* (State::tick and its three handlers), the Player and Obstacle           *)
(* operations, the obstacle producer threads and their mpsc channels, and  *)
(* the shared high score.                                                  *)
(*                                                                         *)
(* f32 values.  Player::velocity is an f32.  Every velocity the model      *)
(* handles is an integer multiple of 2^-26 (0.2f32 is 13421773 * 2^-26),   *)
(* so a velocity v is held as the integer v * 2^26 and an f32 addition is  *)
(* the exact integer sum rounded to the nearest f32 (ties to even) by      *)
(* F32Round.  frame_time is an f32 holding whole milliseconds below 2^24,  *)
(* which f32 adds exactly; it is held as that integer.                     *)
(***************************************************************************)
EXTENDS Integers, Sequences, FiniteSets, TLC

VARIABLES
    player,             \* State::player : [x, y, velocity, alive]
    frame_time,         \* State::frame_time (ms)
    mode,               \* State::mode : "Menu" | "Playing" | "End"
    obstacles,          \* State::obstacles : sequence of Obstacle
    score,              \* State::score
    obstacle_receiver,  \* State::obstacle_receiver : id of the channel it receives from
    high_score,         \* State::high_score (the HighScore behind the Arc<Mutex<..>>)
    queue,              \* messages sent on the channel of obstacle_receiver, not yet received
    producers,          \* the running producer threads : set of [sender, x]
    next_chan,          \* number of channels created so far by mpsc::channel()
    quitting,           \* ctx.quitting
    last,               \* what the last operation did : [op, moved, flap, hit]
    budget,             \* what the model still allows : [ticks, sends]
    script              \* the frames the driver replays before any other step

vars == << player, frame_time, mode, obstacles, score, obstacle_receiver,
           high_score, queue, producers, next_chan, quitting, last, budget, script >>

-----------------------------------------------------------------------------
(* Program constants *)

SCREEN_WIDTH == 80
SCREEN_HEIGHT == 50
FRAME_DURATION == 75

\* f32 1.0 in units of 2^-26
F32One == 2^26
\* 0.2f32 = 0x3E4CCCCD = 13421773 * 2^-26
GRAVITY == 13421773
\* the bound of the gravity test, 2.0
VELOCITY_CAP == 2 * F32One
\* the velocity flap assigns, -2.0
FLAP_VELOCITY == -2 * F32One
\* the bound of the flap test, 5.0
FLAP_LIMIT == 5 * F32One
\* the culling margin of play's retain
CULL_MARGIN == -20
\* Player::new(5, 25)
START_X == 5
START_Y == 25
\* for _ in 0..3
INITIAL_OBSTACLES == 3

-----------------------------------------------------------------------------
(* Bounds of the model *)

\* physics ticks (calls of try_move by play) in one behaviour of Spec
MaxTicks == 27
\* successful sends of the producers in one behaviour of Spec
MaxSends == 1

\* physics ticks and successful sends in one behaviour of SpecMid
MidTicks == 6
MidSends == 2

\* calls of try_move, reset and kill in one behaviour of SpecUnit
UnitOps == 2

\* physics ticks and successful sends in one behaviour of SpecFair
FairTicks == 2
FairSends == 1

\* channels the properties about producers look at: the ids 0..MaxChannels
MaxChannels == 4

\* values rng.range(10, 40) and rng.range(10, 20) are drawn from
GapYs == {25}
Sizes == {11}
\* ctx.frame_time_ms of a frame
Dts == {75, 76}
\* ctx.key of a frame
Keys == {"None", "Space", "P", "Q"}

-----------------------------------------------------------------------------
(* Arithmetic *)

Abs(n) == IF n < 0 THEN -n ELSE n

\* i32 division: rounds toward zero
TruncDiv(a, b) ==
    IF (a >= 0) = (b > 0) THEN Abs(a) \div Abs(b) ELSE -(Abs(a) \div Abs(b))

\* the spacing of f32 values around magnitude m (in units of 2^-26), m < 8.0
F32Quantum(m) ==
    IF m < 2^24 THEN 1
    ELSE IF m < 2^25 THEN 2
    ELSE IF m < 2^26 THEN 4
    ELSE IF m < 2^27 THEN 8
    ELSE IF m < 2^28 THEN 16
    ELSE 32

\* the f32 nearest to n * 2^-26, ties to the even mantissa
F32Round(n) ==
    LET m  == Abs(n)
        q  == F32Quantum(m)
        k  == m \div q
        r  == m - q * k
        up == IF 2 * r > q \/ (2 * r = q /\ k % 2 = 1) THEN q * (k + 1) ELSE q * k
    IN  IF n < 0 THEN -up ELSE up

\* a + b in f32
F32Add(a, b) == F32Round(a + b)

\* `v as i32`: truncation toward zero
F32ToI32(v) == TruncDiv(v, F32One)

-----------------------------------------------------------------------------
(* Player *)

PlayerNew(x, y) == [x |-> x, y |-> y, velocity |-> 0, alive |-> TRUE]

\* try_move without the top boundary: the player moves above the screen
try_move_unbounded(p) ==
    IF ~p.alive THEN [player |-> p, ok |-> FALSE]
    ELSE
      LET v == IF p.velocity < VELOCITY_CAP THEN F32Add(p.velocity, GRAVITY)
               ELSE p.velocity
      IN  [player |-> [x |-> p.x + 1, y |-> p.y + F32ToI32(v), velocity |-> v,
                       alive |-> TRUE],
           ok |-> TRUE]

\* try_move with gravity applied at every velocity
try_move_uncapped(p) ==
    LET v == F32Add(p.velocity, GRAVITY)
        y == p.y + F32ToI32(v)
    IN  IF ~p.alive THEN [player |-> p, ok |-> FALSE]
        ELSE IF y < 0
        THEN [player |-> [x |-> p.x + 1, y |-> 0, velocity |-> v, alive |-> FALSE],
              ok |-> FALSE]
        ELSE [player |-> [x |-> p.x + 1, y |-> y, velocity |-> v, alive |-> TRUE],
              ok |-> TRUE]

\* try_move with gravity still applied at a velocity of exactly 2.0
try_move_cap_inclusive(p) ==
    IF ~p.alive THEN [player |-> p, ok |-> FALSE]
    ELSE
      LET v == IF p.velocity <= VELOCITY_CAP THEN F32Add(p.velocity, GRAVITY)
               ELSE p.velocity
          x == p.x + 1
          y == p.y + F32ToI32(v)
      IN  IF y < 0
          THEN [player |-> [x |-> x, y |-> 0, velocity |-> v, alive |-> FALSE],
                ok |-> FALSE]
          ELSE [player |-> [x |-> x, y |-> y, velocity |-> v, alive |-> TRUE],
                ok |-> TRUE]

\* Player::try_move: the player after the call and whether it returned Some(())
try_move(p) ==
    IF ~p.alive THEN [player |-> p, ok |-> FALSE]
    ELSE
      LET v == IF p.velocity < VELOCITY_CAP THEN F32Add(p.velocity, GRAVITY)
               ELSE p.velocity
          x == p.x + 1
          y == p.y + F32ToI32(v)
      IN  IF y < 0
          THEN [player |-> [x |-> x, y |-> 0, velocity |-> v, alive |-> FALSE],
                ok |-> FALSE]
          ELSE [player |-> [x |-> x, y |-> y, velocity |-> v, alive |-> TRUE],
                ok |-> TRUE]

\* flap as an accumulation: the impulse is added to the velocity
flap_accumulating(p) ==
    IF ~p.alive THEN [player |-> p, res |-> "AlreadyDead"]
    ELSE IF p.velocity > FLAP_LIMIT THEN [player |-> p, res |-> "FallingTooFast"]
    ELSE [player |-> [p EXCEPT !.velocity = F32Add(@, FLAP_VELOCITY)], res |-> "Ok"]

\* flap with the velocity check before the dead check
flap_velocity_first(p) ==
    IF p.velocity > FLAP_LIMIT THEN [player |-> p, res |-> "FallingTooFast"]
    ELSE IF ~p.alive THEN [player |-> p, res |-> "AlreadyDead"]
    ELSE [player |-> [p EXCEPT !.velocity = FLAP_VELOCITY], res |-> "Ok"]

\* Player::flap: the player after the call and the Result
flap(p) ==
    IF ~p.alive THEN [player |-> p, res |-> "AlreadyDead"]
    ELSE IF p.velocity > FLAP_LIMIT THEN [player |-> p, res |-> "FallingTooFast"]
    ELSE [player |-> [p EXCEPT !.velocity = FLAP_VELOCITY], res |-> "Ok"]

\* Player::reset: the player after the call
reset(p, x, y) == [x |-> x, y |-> y, velocity |-> 0, alive |-> TRUE]

\* Player::kill: the player after the call
kill(p) == [p EXCEPT !.alive = FALSE]

-----------------------------------------------------------------------------
(* Obstacle *)

\* An Obstacle; origin is the id of the channel created by the State::new or
\* State::restart call whose batch or producer constructed it.
Obstacle(x, gap_y, size, origin) ==
    [x |-> x, gap_y |-> gap_y, size |-> size, origin |-> origin]

\* hit_obstacle with the edges of the gap band counted as wall
hit_obstacle_edges(o, p) ==
    LET half_size == TruncDiv(o.size, 2)
    IN  p.x = o.x /\ (p.y <= o.gap_y - half_size \/ p.y >= o.gap_y + half_size)

\* Obstacle::hit_obstacle
hit_obstacle(o, p) ==
    LET half_size        == TruncDiv(o.size, 2)
        does_x_match     == p.x = o.x
        player_above_gap == p.y < o.gap_y - half_size
        player_below_gap == p.y > o.gap_y + half_size
    IN  does_x_match /\ (player_above_gap \/ player_below_gap)

-----------------------------------------------------------------------------
(* The culling of play *)

RECURSIVE retain(_, _)
\* Vec::retain with the culling closure of play: keeps, in order, the
\* obstacles o with o.x - px > -20
retain(s, px) ==
    IF s = << >> THEN << >>
    ELSE LET rest == retain(Tail(s), px)
         IN  IF Head(s).x - px > CULL_MARGIN THEN << Head(s) >> \o rest ELSE rest

-----------------------------------------------------------------------------
(* The session: State and the producer threads, as one record *)

Cur ==
    [player |-> player, frame_time |-> frame_time, mode |-> mode,
     obstacles |-> obstacles, score |-> score,
     obstacle_receiver |-> obstacle_receiver, high_score |-> high_score,
     queue |-> queue, producers |-> producers, next_chan |-> next_chan,
     quitting |-> quitting, last |-> last]

Set(s) ==
    /\ player' = s.player
    /\ frame_time' = s.frame_time
    /\ mode' = s.mode
    /\ obstacles' = s.obstacles
    /\ score' = s.score
    /\ obstacle_receiver' = s.obstacle_receiver
    /\ high_score' = s.high_score
    /\ queue' = s.queue
    /\ producers' = s.producers
    /\ next_chan' = s.next_chan
    /\ quitting' = s.quitting
    /\ last' = s.last

Start(s) ==
    /\ player = s.player
    /\ frame_time = s.frame_time
    /\ mode = s.mode
    /\ obstacles = s.obstacles
    /\ score = s.score
    /\ obstacle_receiver = s.obstacle_receiver
    /\ high_score = s.high_score
    /\ queue = s.queue
    /\ producers = s.producers
    /\ next_chan = s.next_chan
    /\ quitting = s.quitting
    /\ last = s.last

\* what one rng.range(10, 40), rng.range(10, 20) pair can return
Draws == GapYs \X Sizes
\* the draws of one initial batch
BatchDraws == [1..INITIAL_OBSTACLES -> Draws]

Done(op, moved, flapres, hit) ==
    [op |-> op, moved |-> moved, flap |-> flapres, hit |-> hit]

\* the initial batch: obstacles at SCREEN_WIDTH, then every SCREEN_WIDTH / 2
InitialBatch(draws, chan) ==
    [i \in 1..INITIAL_OBSTACLES |->
        Obstacle(SCREEN_WIDTH + (i - 1) * TruncDiv(SCREEN_WIDTH, 2),
                 draws[i][1], draws[i][2], chan)]

\* thread_x: the x the loop of the initial batch ends with
ThreadX == SCREEN_WIDTH + INITIAL_OBSTACLES * TruncDiv(SCREEN_WIDTH, 2)

\* a producer that starts over at the x of the first obstacle of the batch
ProducerFromStart(chan) == [sender |-> chan, x |-> SCREEN_WIDTH]

\* the producer thread spawned for channel chan, before its first send
Producer(chan) == [sender |-> chan, x |-> ThreadX]

\* State::new
StateNew(draws) ==
    [player |-> PlayerNew(START_X, START_Y), frame_time |-> 0, mode |-> "Menu",
     obstacles |-> InitialBatch(draws, 0), score |-> 0,
     obstacle_receiver |-> 0, high_score |-> 0,
     queue |-> << >>, producers |-> {Producer(0)}, next_chan |-> 1,
     quitting |-> FALSE, last |-> Done("new", "NotCalled", "NotCalled", FALSE)]

\* restart keeping the receiver it had, with the messages not yet received
kept_receiver(s) == [id |-> s.obstacle_receiver, queue |-> s.queue]

\* self.obstacle_receiver = receiver, of restart: the receiver of the new
\* channel replaces the old one, which is dropped with the messages it had
\* not received
new_receiver(s) == [id |-> s.next_chan, queue |-> << >>]

\* State::restart
restart(s, draws) ==
    LET rx == new_receiver(s)
    IN  [s EXCEPT !.player = PlayerNew(START_X, START_Y),
                  !.frame_time = 0,
                  !.mode = "Playing",
                  !.score = 0,
                  !.obstacles = InitialBatch(draws, s.next_chan),
                  !.obstacle_receiver = rx.id,
                  !.queue = rx.queue,
                  !.producers = s.producers \cup {Producer(s.next_chan)},
                  !.next_chan = s.next_chan + 1]

\* a key match whose Q goes back to the menu instead of quitting
MenuKeysBackToMenu(s, key, draws) ==
    IF key = "P" THEN restart(s, draws)
    ELSE IF key = "Q" THEN [s EXCEPT !.mode = "Menu"]
    ELSE s

\* the key match of State::main_menu and State::dead
MenuKeys(s, key, draws) ==
    IF key = "P" THEN restart(s, draws)
    ELSE IF key = "Q" THEN [s EXCEPT !.quitting = TRUE]
    ELSE s

\* State::main_menu
main_menu(s, key, draws) ==
    [MenuKeys(s, key, draws) EXCEPT !.last = Done("main_menu", "NotCalled", "NotCalled", FALSE)]

\* State::dead
dead(s, key, draws) ==
    [MenuKeys(s, key, draws) EXCEPT !.last = Done("dead", "NotCalled", "NotCalled", FALSE)]

\* a frame timer that ticks as soon as the accumulator reaches FRAME_DURATION
frame_timer_at_duration(p, ft, dt) ==
    IF ft + dt >= FRAME_DURATION
    THEN [frame_time |-> 0, timed |-> TRUE, mv |-> try_move(p)]
    ELSE [frame_time |-> ft + dt, timed |-> FALSE, mv |-> [player |-> p, ok |-> TRUE]]

\* the frame timer of play: the accumulator after the frame, whether
\* try_move was called, and its outcome
frame_timer(p, ft, dt) ==
    IF ft + dt > FRAME_DURATION
    THEN [frame_time |-> 0, timed |-> TRUE, mv |-> try_move(p)]
    ELSE [frame_time |-> ft + dt, timed |-> FALSE, mv |-> [player |-> p, ok |-> TRUE]]

\* the Space key of play: an Err of flap is printed and dropped
flap_key(p, key) ==
    IF key = "Space" THEN flap(p) ELSE [player |-> p, res |-> "NotCalled"]

\* scoring as soon as the player is on the column of the front obstacle
scoring_on_column(kept, px) ==
    IF kept # << >> /\ px >= Head(kept).x
    THEN [passed |-> 1, rest |-> Tail(kept)] ELSE [passed |-> 0, rest |-> kept]

\* the scoring of play on the obstacles kept by the culling
scoring(kept, px) ==
    IF kept # << >> /\ px > Head(kept).x
    THEN [passed |-> 1, rest |-> Tail(kept)]
    ELSE [passed |-> 0, rest |-> kept]

\* a drain that receives one message per frame
drain_one(obs, q) == IF q = << >> THEN obs ELSE Append(obs, Head(q))

\* the try_recv loop of play: every message of the channel, in order
drain(obs, q) == obs \o q

\* whether some obstacle of obs reports a hit
any_hit(obs, p) == \E i \in 1..Len(obs) : hit_obstacle(obs[i], p)

\* player_dead with the bottom row of the screen counted as fallen
player_dead_at_height(p, obs) == p.y >= SCREEN_HEIGHT \/ any_hit(obs, p)

\* player_dead of play
player_dead(p, obs) == p.y > SCREEN_HEIGHT \/ any_hit(obs, p)

\* the high score overwritten by the score of every session that ends
best_score_overwritten(is_dead, sc, high) == IF is_dead THEN sc ELSE high

\* the high score after the collision detection of play
best_score(is_dead, sc, high) == IF is_dead /\ sc > high THEN sc ELSE high

\* State::play
play(s, dt, key) ==
    LET ft     == frame_timer(s.player, s.frame_time, dt)
        mode1  == IF ft.timed /\ ~ft.mv.ok THEN "End" ELSE s.mode
        fl     == flap_key(ft.mv.player, key)
        p      == fl.player
        sc     == scoring(retain(s.obstacles, p.x), p.x)
        score1 == s.score + sc.passed
        obs    == drain(sc.rest, s.queue)
        is_dead == player_dead(p, obs)
    IN  [s EXCEPT !.player = p,
                  !.frame_time = ft.frame_time,
                  !.mode = IF is_dead THEN "End" ELSE mode1,
                  !.obstacles = obs,
                  !.score = score1,
                  !.queue = << >>,
                  !.high_score = best_score(is_dead, score1, s.high_score),
                  !.last = Done("play",
                                IF ~ft.timed THEN "NotCalled"
                                ELSE IF ft.mv.ok THEN "Some" ELSE "None",
                                fl.res, any_hit(obs, p))]

\* a producer loop that sends every obstacle at the same x
send_ok_in_place(s, p, d) ==
    [s EXCEPT !.queue = Append(s.queue, Obstacle(p.x, d[1], d[2], p.sender))]

\* one iteration of a producer thread's loop on a live channel: the send
\* succeeds and x advances by SCREEN_WIDTH / 2
send_ok(s, p, d) ==
    [s EXCEPT !.queue = Append(s.queue, Obstacle(p.x, d[1], d[2], p.sender)),
              !.producers = (s.producers \ {p})
                  \cup {[p EXCEPT !.x = p.x + TruncDiv(SCREEN_WIDTH, 2)]}]

\* a producer loop that takes a failed send for a transient error and retries
send_err_retry(s, p) == s

\* the iteration when the receiver of its channel is gone: send is Err, break
send_err(s, p) == [s EXCEPT !.producers = s.producers \ {p}]

\* whether play, run with ctx.frame_time_ms = dt, calls try_move
Timed(s, dt) == s.frame_time + dt > FRAME_DURATION

-----------------------------------------------------------------------------
(* The flight to the first obstacle.                                       *)
(* The first obstacle is 75 physics ticks away from the start of a         *)
(* session.  In SpecMid the driver first replays one of a few fixed input  *)
(* scripts (the frames of the script are the inputs of GameState::tick,    *)
(* and no producer is scheduled meanwhile), which bring the player next to *)
(* the first obstacle; from there on every input and interleaving is       *)
(* examined, as in Spec.                                                   *)

Frame(key, d) ==
    [dt |-> FRAME_DURATION + 1, key |-> key,
     draws |-> [i \in 1..INITIAL_OBSTACLES |-> d]]

\* n frames that each tick, with the flap key in the frames of flaps
Frames(n, flaps) ==
    [i \in 1..n |-> Frame(IF i \in flaps THEN "Space" ELSE "None", << 25, 11 >>)]

\* frames from the start of a session to x = SCREEN_WIDTH - 2
Approach == SCREEN_WIDTH - 2 - START_X

\* to x = 78, y = 21, velocity -2.0, before the gap band [20, 30]
ToMidGap ==
    << Frame("P", << 25, 11 >>) >>
    \o Frames(Approach, {19, 37, 48, 52, 56, 60, 64, 68, 72, 73})

\* to x = 78, y = 3, velocity -2.0, before the gap band [1, 19]
ToHighGap ==
    << Frame("P", << 10, 19 >>) >>
    \o Frames(Approach, {19, 30, 34, 38, 42, 46, 50, 54, 58, 62, 66, 70, 73})

\* to x = 78, y = 44, velocity 2.0000002, before the gap band [30, 48]
ToLowGap ==
    << Frame("P", << 39, 19 >>) >> \o Frames(Approach, {19, 37, 48, 52, 53})

\* through a first session that passes its first obstacle and falls below
\* the screen at x = 82, to x = 78, y = 21 of a second session
ToSecondSession == ToLowGap \o Frames(4, {}) \o ToMidGap

\* to the End of that first session
ToFirstDeath == ToLowGap \o Frames(4, {})

\* a whole session without a word of its producer: flapping every 18
\* frames keeps y within 21..25, through the three gaps [20, 30] of the
\* batch, to x = ThreadX - 1
ToThreadX ==
    << Frame("P", << 25, 11 >>) >>
    \o Frames(ThreadX - 1 - START_X, {1 + 18 * k : k \in 0..10})


Scripts == {<< >>, ToMidGap, ToHighGap, ToLowGap, ToSecondSession, ToThreadX}

\* the inputs of one frame: ctx.frame_time_ms, ctx.key and what the rng
\* returns if the frame restarts
FrameInputs ==
    IF script # << >> THEN {Head(script)}
    ELSE [dt : Dts, key : Keys, draws : BatchDraws]

\* a frame of the script is charged to the script, not to the budget
Charge(n) ==
    /\ script' = IF script # << >> THEN Tail(script) ELSE script
    /\ budget' = IF script # << >> THEN budget
                 ELSE [budget EXCEPT !.ticks = @ - n]

-----------------------------------------------------------------------------
(* Actions *)

\* GameState::tick in mode Menu
MainMenu ==
    /\ ~quitting /\ mode = "Menu"
    /\ \E in \in FrameInputs :
          \E s \in {main_menu(Cur, in.key, in.draws)} : Set(s)
    /\ Charge(0)

\* GameState::tick in mode Playing
Play ==
    /\ ~quitting /\ mode = "Playing"
    /\ \E in \in FrameInputs :
          /\ script = << >> /\ Timed(Cur, in.dt) => budget.ticks > 0
          /\ \E s \in {play(Cur, in.dt, in.key)} : Set(s)
          /\ Charge(IF Timed(Cur, in.dt) THEN 1 ELSE 0)

\* GameState::tick in mode End
Dead ==
    /\ ~quitting /\ mode = "End"
    /\ \E in \in FrameInputs :
          \E s \in {dead(Cur, in.key, in.draws)} : Set(s)
    /\ Charge(0)

\* a producer thread sends on the channel the session receives from
ProducerSend ==
    /\ ~quitting /\ budget.sends > 0 /\ script = << >>
    /\ \E p \in producers, d \in Draws :
          /\ p.sender = obstacle_receiver
          /\ \E s \in {send_ok(Cur, p, d)} : Set(s)
    /\ budget' = [budget EXCEPT !.sends = @ - 1]
    /\ UNCHANGED script

\* a producer thread finds the receiver of its channel dropped, and exits
ProducerExit ==
    /\ ~quitting
    /\ \E p \in producers :
          /\ p.sender # obstacle_receiver
          /\ \E s \in {send_err(Cur, p)} : Set(s)
    /\ UNCHANGED << budget, script >>

Init ==
    /\ \E draws \in BatchDraws : Start(StateNew(draws))
    /\ budget = [ticks |-> MaxTicks, sends |-> MaxSends]
    /\ script = << >>

Next == MainMenu \/ Play \/ Dead \/ ProducerSend \/ ProducerExit

\* The session from State::new, under every input and interleaving.
Spec == Init /\ [][Next]_vars

InitMid ==
    /\ \E draws \in BatchDraws : Start(StateNew(draws))
    /\ budget = [ticks |-> MidTicks, sends |-> MidSends]
    /\ script \in Scripts

\* The session from State::new through one of the scripts, and from there
\* under every input and interleaving.
SpecMid == InitMid /\ [][Next]_vars

InitFair ==
    /\ \E draws \in BatchDraws : Start(StateNew(draws))
    /\ budget = [ticks |-> FairTicks, sends |-> FairSends]
    /\ script \in {<< >>, ToFirstDeath}

\* The session from State::new, or through a first session, with the
\* scheduling of the threads: a producer thread whose send fails is not
\* kept from running forever.
SpecFair == InitFair /\ [][Next]_vars /\ WF_vars(ProducerExit)

-----------------------------------------------------------------------------
(* The operations on drawn arguments.                                      *)
(* SpecUnit applies Player::try_move, Player::flap, Obstacle::hit_obstacle,*)
(* the culling of play and State::play itself to players and obstacles     *)
(* drawn from the sets below, which hold the values around every           *)
(* comparison of the code, also those no session reaches (a dead player in *)
(* mode Playing, a velocity above 5.0).                                    *)

\* velocities: -2.0, -1.8, -0.9999998, 0.0, 1.4901161e-7, 0.8, 1.0,
\* 1.8000002, 1.8000003, 2.0, 2.0000002, 5.0, 5.0000005 and 6.0
UnitVelocities ==
    {-134217728, -120795952, -67108852, 0, 10, 53687092, 67108864,
     120795968, 120795976, 134217728, 134217744, 335544320, 335544352,
     402653184}

\* players around the top and the bottom of the screen, at every velocity
UnitFlyers ==
    [x : {START_X}, y : {0, 1, 2, 3, 25, 49, 50, 51, 52},
     velocity : UnitVelocities, alive : BOOLEAN]

\* players at every height, before, at and past the obstacle at x = 5
UnitWalkers ==
    [x : {START_X - 1, START_X, START_X + 1}, y : 0..(SCREEN_HEIGHT + 2),
     velocity : {0}, alive : {TRUE}]

\* obstacles at x = 5: the least and greatest, even and odd sizes, with the
\* least, a middle and the greatest gap_y
UnitObstacles ==
    {Obstacle(START_X, g, z, 0) : g \in {10, 25, 39}, z \in {10, 11, 18, 19}}

\* a player at x = 100 with obstacles around the culling margin behind it
UnitCulls ==
    {<< [PlayerNew(100, START_Y) EXCEPT !.velocity = v],
        << Obstacle(79, 25, 10, 0), Obstacle(80, 25, 10, 0),
           Obstacle(81, 25, 10, 0), Obstacle(120, 25, 10, 0) >> >> :
       v \in {0, 134217744}}

UnitArguments ==
    (UnitFlyers \X {<< Obstacle(START_X + 1, 25, 10, 0), Obstacle(START_X + 41, 25, 10, 0) >>})
    \cup (UnitWalkers \X {<< o >> : o \in UnitObstacles})
    \cup UnitCulls

\* Player::try_move on the player
TryMove ==
    /\ budget.ticks > 0
    /\ \E r \in {try_move(player)} :
          /\ player' = r.player
          /\ last' = Done("try_move", IF r.ok THEN "Some" ELSE "None", "NotCalled", FALSE)
    /\ budget' = [budget EXCEPT !.ticks = @ - 1]
    /\ UNCHANGED << frame_time, mode, obstacles, score, obstacle_receiver,
                    high_score, queue, producers, next_chan, quitting, script >>

\* Player::flap on the player
Flap ==
    /\ \E r \in {flap(player)} :
          /\ player' = r.player
          /\ last' = Done("flap", "NotCalled", r.res, FALSE)
    /\ UNCHANGED << frame_time, mode, obstacles, score, obstacle_receiver,
                    high_score, queue, producers, next_chan, quitting, script,
                    budget >>

\* Obstacle::hit_obstacle of the first obstacle on the player
HitObstacle ==
    /\ obstacles # << >>
    /\ last' = Done("hit_obstacle", "NotCalled", "NotCalled",
                    hit_obstacle(obstacles[1], player))
    /\ UNCHANGED << player, frame_time, mode, obstacles, score, obstacle_receiver,
                    high_score, queue, producers, next_chan, quitting, script,
                    budget >>

\* the culling of play on the obstacles
Retain ==
    /\ obstacles' = retain(obstacles, player.x)
    /\ last' = Done("retain", "NotCalled", "NotCalled", FALSE)
    /\ UNCHANGED << player, frame_time, mode, score, obstacle_receiver,
                    high_score, queue, producers, next_chan, quitting, script,
                    budget >>

\* the (x, y) reset is called with: the start of a session, the top row,
\* and a row above the screen
UnitResets == {<< START_X, START_Y >>, << START_X, 0 >>, << START_X, -1 >>}

\* Player::reset on the player
Reset ==
    /\ budget.ticks > 0
    /\ \E a \in UnitResets : player' = reset(player, a[1], a[2])
    /\ last' = Done("reset", "NotCalled", "NotCalled", FALSE)
    /\ budget' = [budget EXCEPT !.ticks = @ - 1]
    /\ UNCHANGED << frame_time, mode, obstacles, score, obstacle_receiver,
                    high_score, queue, producers, next_chan, quitting, script >>

\* Player::kill on the player
Kill ==
    /\ budget.ticks > 0
    /\ player' = kill(player)
    /\ last' = Done("kill", "NotCalled", "NotCalled", FALSE)
    /\ budget' = [budget EXCEPT !.ticks = @ - 1]
    /\ UNCHANGED << frame_time, mode, obstacles, score, obstacle_receiver,
                    high_score, queue, producers, next_chan, quitting, script >>

InitUnit ==
    /\ \E a \in UnitArguments : player = a[1] /\ obstacles = a[2]
    /\ frame_time = 0
    /\ mode = "Playing"
    /\ score = 0
    /\ obstacle_receiver = 0
    /\ high_score = 0
    /\ queue = << >>
    /\ producers = {}
    /\ next_chan = 1
    /\ quitting = FALSE
    /\ last = Done("new", "NotCalled", "NotCalled", FALSE)
    /\ budget = [ticks |-> UnitOps, sends |-> 0]
    /\ script = << >>

NextUnit == Play \/ TryMove \/ Flap \/ Reset \/ Kill \/ HitObstacle \/ Retain

SpecUnit == InitUnit /\ [][NextUnit]_vars

-----------------------------------------------------------------------------
(* Properties *)

Max(a, b) == IF a >= b THEN a ELSE b

\* the x of the obstacles of a sequence, in order
Xs(obs) == [i \in 1..Len(obs) |-> obs[i].x]

\* C1: whenever the mode changes from Playing to End, whatever the cause,
\* the high score after the frame is the maximum of the high score before
\* it and the score the session ended with.
C1_BestScoreSetOnEnding ==
    [][(mode = "Playing" /\ mode' = "End") => high_score' = Max(high_score, score')]_vars

\* C2: after a frame of play the mode is End if and only if try_move was
\* called and returned None, or the player's y is above SCREEN_HEIGHT, or
\* some obstacle of the collection reports a hit; otherwise it is Playing.
C2_EndedIffDeathCause ==
    last.op = "play" =>
       /\ mode \in {"Playing", "End"}
       /\ mode = "End" <=>
             \/ last.moved = "None"
             \/ player.y > SCREEN_HEIGHT
             \/ \E i \in 1..Len(obstacles) : hit_obstacle(obstacles[i], player)

\* C2 witness: a frame that ticked and moved the player onto the column of
\* an obstacle, outside its gap: the collision alone ended the session.
C2_Witness ==
    /\ last.op = "play" /\ last.moved = "Some" /\ mode = "End"
    /\ player.y <= SCREEN_HEIGHT /\ last.hit

\* C3: a frame that leaves Menu or End for Playing (a start key) leaves the
\* player at (5, 25) with velocity 0 and alive, score 0, frame_time 0, three
\* obstacles at 80, 120 and 160, a receiver on a channel nobody used before,
\* with no message, whose producer is about to send x = 200, and the high
\* score as it was.
C3_RestartState ==
    [][(mode # "Playing" /\ mode' = "Playing") =>
          /\ player' = [x |-> 5, y |-> 25, velocity |-> 0, alive |-> TRUE]
          /\ score' = 0
          /\ frame_time' = 0
          /\ Xs(obstacles') = << 80, 120, 160 >>
          /\ obstacle_receiver' # obstacle_receiver
          /\ \A p \in producers : p.sender # obstacle_receiver'
          /\ queue' = << >>
          /\ {p \in producers' : p.sender = obstacle_receiver'}
                = {[sender |-> obstacle_receiver', x |-> 200]}
          /\ high_score' = high_score]_vars

\* C3 witness: a restart from End that found a score and a high score to keep.
C3_Witness ==
    /\ mode = "Playing" /\ last.op = "dead" /\ script = << >>
    /\ high_score > 0 /\ Cardinality(producers) > 1

\* C4: a frame of play adds 1 to the score and removes the front obstacle
\* exactly when, after the tick and the culling, the player's x is greater
\* than the front obstacle's x; otherwise the scoring leaves the score and
\* the culled collection as they are.  Each obstacle counts once: the score
\* is the number of obstacles of the initial batch behind the player.
C4_ScoreOncePerObstacle ==
    /\ [][Play =>
            LET kept == retain(obstacles, player'.x)
            IN  IF kept # << >> /\ player'.x > kept[1].x
                THEN score' = score + 1 /\ obstacles' = Tail(kept) \o queue
                ELSE score' = score /\ obstacles' = kept \o queue]_vars
    /\ [](mode # "Menu" /\ player.x <= 160 =>
            score = Cardinality({x \in {80, 120, 160} : x < player.x}))

\* C4 witness: the player has passed the first obstacle, and a frame without
\* a tick has run since.
C4_Witness ==
    /\ mode = "Playing" /\ last.op = "play" /\ last.moved = "NotCalled"
    /\ score = 1 /\ player.x > 81 /\ script = << >>

\* C5: the high score never decreases, and a step changes it only if the
\* step takes the mode from Playing to End, and then to the score the
\* session ended with, which is greater than the high score before.
C5_BestScoreMonotone ==
    [][/\ high_score' >= high_score
       /\ high_score' # high_score =>
             /\ mode = "Playing" /\ mode' = "End"
             /\ high_score' = score' /\ score' > high_score]_vars

\* C5 witness: a session ended with a score below the high score of an
\* earlier session, which is kept.
C5_Witness ==
    mode = "End" /\ last.op = "play" /\ script = << >> /\ score < high_score

\* C6: the collision predicate is true if and only if the player's x equals
\* the obstacle's x and the player's y is below gap_y - size/2 or above
\* gap_y + size/2, size/2 rounded toward zero; on an edge of the gap band,
\* or at another x, there is no collision.  With gap_y = 25, size = 10 and
\* x = 5, the player at (5, 10) collides, at (5, 25) and (6, 10) it does not.
C6_CollisionPredicate ==
    last.op = "hit_obstacle" =>
       LET o == obstacles[1]
           half == o.size \div 2
       IN  /\ o.size >= 0
           /\ last.hit <=> /\ player.x = o.x
                           /\ player.y < o.gap_y - half \/ player.y > o.gap_y + half
           /\ player.y \in {o.gap_y - half, o.gap_y + half} => ~last.hit
           /\ player.x # o.x => ~last.hit
           /\ << o.x, o.gap_y, o.size >> = << 5, 25, 10 >> =>
                 /\ << player.x, player.y >> = << 5, 10 >> => last.hit
                 /\ << player.x, player.y >> = << 5, 25 >> => ~last.hit
                 /\ << player.x, player.y >> = << 6, 10 >> => ~last.hit

\* C6 witness: an obstacle of odd size, asked about the player one row
\* above its gap band, reports the hit.
C6_Witness ==
    /\ last.op = "hit_obstacle" /\ last.hit
    /\ obstacles[1].size = 19 /\ player.y = obstacles[1].gap_y - 10

\* C7: flap on an alive player whose velocity is at most 5.0 returns Ok and
\* sets the velocity to -2.0, whatever it was, and changes neither x, y
\* nor alive.
C7_FlapAssignsVelocity ==
    [][Flap /\ player.alive /\ player.velocity <= 5 * 67108864 =>
          /\ last'.flap = "Ok"
          /\ player' = [x |-> player.x, y |-> player.y,
                        velocity |-> -2 * 67108864, alive |-> TRUE]]_vars

\* C7 witness: a flap has succeeded on a player that a try_move had first
\* brought to a velocity other than -2.0.
C7_Witness ==
    /\ last.op = "flap" /\ last.flap = "Ok" /\ player.velocity = FLAP_VELOCITY
    /\ player.x = START_X + 1 /\ budget.ticks = UnitOps - 1

\* C8: flap on a dead player returns AlreadyDead, whatever the velocity,
\* and flap on an alive player whose velocity is above 5.0 returns
\* FallingTooFast; both leave the player as it was.  A frame of play whose
\* flap failed ends as the same frame without the key: the same player,
\* mode, score, obstacles, accumulator and high score.
C8_FlapErrorsIgnored ==
    /\ [][Flap =>
            /\ ~player.alive => last'.flap = "AlreadyDead" /\ player' = player
            /\ player.alive /\ player.velocity > 5 * 67108864 =>
                  last'.flap = "FallingTooFast" /\ player' = player]_vars
    /\ [][last'.flap \in {"AlreadyDead", "FallingTooFast"} /\ Play =>
            /\ last'.flap = "AlreadyDead" <=> ~player'.alive
            /\ \E dt \in Dts :
                 LET s == play(Cur, dt, "None")
                 IN  /\ << player', mode', score', obstacles', frame_time', high_score' >>
                        = << s.player, s.mode, s.score, s.obstacles, s.frame_time, s.high_score >>
                     /\ last'.moved = s.last.moved]_vars

\* C8 witness: a frame of play has ticked, moved the player, and called flap
\* at a velocity above 5.0; the session goes on.
C8_Witness ==
    /\ last.op = "play" /\ last.flap = "FallingTooFast" /\ last.moved = "Some"
    /\ mode = "Playing"

\* C9: the player's y is never negative: no operation but reset, which no
\* session calls, takes a y that is not negative to one that is, and
\* try_move on an alive player never leaves one.  try_move on an alive
\* player whose y plus its velocity would be negative sets y to 0 and alive
\* to false and returns None; try_move on a dead player returns None and
\* changes nothing.
C9_TopBoundary ==
    /\ [][Reset \/ player.y < 0 \/ player'.y >= 0]_vars
    /\ [][TryMove /\ player.alive => player'.y >= 0]_vars
    /\ [][TryMove =>
            /\ player.alive /\ player.y + F32ToI32(player'.velocity) < 0 =>
                  /\ player'.y = 0 /\ ~player'.alive /\ last'.moved = "None"
            /\ player.alive /\ player.y + F32ToI32(player'.velocity) >= 0 =>
                  /\ player'.y = player.y + F32ToI32(player'.velocity)
                  /\ player'.alive /\ last'.moved = "Some"
            /\ ~player.alive => player' = player /\ last'.moved = "None"]_vars

\* C9 witness: a player killed at the top by one try_move, after a second
\* try_move that left it where it was.
C9_Witness ==
    /\ last.op = "try_move" /\ last.moved = "None" /\ budget.ticks = UnitOps - 2
    /\ ~player.alive /\ player.y = 0 /\ player.x = START_X + 1

\* C10: every obstacle of the collection, and every message of the
\* receiver, was constructed by the batch or the producer of the call
\* (State::new or the latest restart) that created the current receiver.
C10_NoStaleObstacles ==
    /\ \A i \in 1..Len(obstacles) : obstacles[i].origin = obstacle_receiver
    /\ \A i \in 1..Len(queue) : queue[i].origin = obstacle_receiver

\* C10 witness: the producer started at construction sent while in Menu and
\* is still alive, and the collection holds the batch of the restart and an
\* obstacle sent by the new producer.
C10_Witness ==
    /\ mode = "Playing" /\ Len(obstacles) = INITIAL_OBSTACLES + 1
    /\ \E p \in producers : p.sender # obstacle_receiver /\ p.x > ThreadX

\* C11: in every state the x of the obstacles of the collection strictly
\* increases along the collection, and goes on increasing through the
\* messages waiting in the receiver: the front obstacle has the least x.
C11_ObstaclesIncreasing ==
    LET all == obstacles \o queue
    IN  \A i \in 1..Len(all), j \in 1..Len(all) : i < j => all[i].x < all[j].x

\* C11 witness: a session whose collection holds, behind its batch, two
\* obstacles its producer sent.
C11_Witness ==
    /\ mode = "Playing" /\ last.op = "play"
    /\ Len(obstacles) = INITIAL_OBSTACLES + 2
    /\ obstacles[INITIAL_OBSTACLES + 2].origin = obstacle_receiver

\* C12: no obstacle is skipped over: an obstacle of the collection is never
\* behind the player.  (An obstacle enters the collection by the drain,
\* after the tick of the frame, is tested by hit_obstacle in the frame
\* that brings the player's x to its x, and is removed by the scoring of
\* the next tick: only an obstacle that was never tested at its x can be in
\* the collection with an x below the player's.)
C12_NoObstacleSkipped ==
    \A i \in 1..Len(obstacles) : obstacles[i].x >= player.x

\* the producer of channel c is alive
Alive(c) == \E p \in producers : p.sender = c

\* C13: a producer whose channel is no longer the one the session receives
\* from never sends again: it stays as it is until it exits, and, the
\* threads being scheduled, it does exit (unless the program quits first).
\* The producer of the current channel does not exit while its receiver
\* stays.
C13_AbandonedProducersExit ==
    /\ [](next_chan <= MaxChannels)
    /\ [][\A p \in producers :
            /\ p.sender # obstacle_receiver => p \in producers' \/ ~Alive(p.sender)'
            /\ p.sender = obstacle_receiver /\ obstacle_receiver' = obstacle_receiver =>
                  Alive(p.sender)']_vars
    /\ \A c \in 0..MaxChannels :
          (Alive(c) /\ c # obstacle_receiver) ~> (~Alive(c) \/ quitting)

\* C13 witness: in a second session, the producers of construction and of
\* the first session have exited, and the producer of the session has sent.
C13_Witness ==
    /\ obstacle_receiver = 2 /\ mode = "Playing" /\ ~quitting
    /\ \A p \in producers : p.sender = obstacle_receiver /\ p.x > ThreadX

\* whether o is more than 20 units behind the x px
FarBehind(o, px) == px - o.x > 20

\* C14: the culling removes an obstacle if and only if it is more than 20
\* units behind the player (player.x - o.x > 20); an obstacle exactly 20
\* units behind, nearer, or ahead, is kept, in order.
C14_CullMoreThanTwenty ==
    [][Retain =>
         obstacles' = SelectSeq(obstacles, LAMBDA o : ~FarBehind(o, player.x))]_vars

\* the last n elements of s
Last(s, n) == SubSeq(s, Len(s) - n + 1, Len(s))

\* C15: a frame of play leaves the receiver empty and the collection ending
\* with the messages the receiver held, in the order they were sent, behind
\* obstacles the collection already had in the same order; a send appends
\* to the messages waiting, however many there are.
C15_DrainAll ==
    /\ [][Play =>
            /\ queue' = << >>
            /\ Len(obstacles') >= Len(queue)
            /\ Last(obstacles', Len(queue)) = queue
            /\ LET rest == Len(obstacles') - Len(queue)
               IN  rest <= Len(obstacles)
                   /\ SubSeq(obstacles', 1, rest) = Last(obstacles, rest)]_vars
    /\ [][ProducerSend =>
            /\ Len(queue') = Len(queue) + 1
            /\ SubSeq(queue', 1, Len(queue)) = queue
            /\ obstacles' = obstacles]_vars

\* C15 witness: the one frame of play since the restart, which did not
\* tick, has received a burst of two messages.
C15_Witness ==
    /\ mode = "Playing" /\ last.op = "play" /\ last.moved = "NotCalled"
    /\ player.x = START_X /\ frame_time = FRAME_DURATION
    /\ queue = << >> /\ Xs(obstacles) = << 80, 120, 160, 200, 240 >>

\* C16: in every state of a session being played, the frame of play for
\* each elapsed time dt and key calls try_move, once, exactly when
\* frame_time + dt is greater than 75, and then leaves frame_time at 0,
\* otherwise at the sum, with the player where it was; with the Space key
\* the player that is alive after the timer has velocity -2.0 after the
\* frame, whether try_move was called or not.
C16_FrameTimer ==
    mode = "Playing" =>
       \A dt \in Dts, key \in Keys :
          LET s == play(Cur, dt, key)
              sum == frame_time + dt
          IN  /\ sum > 75 =>
                    /\ s.frame_time = 0 /\ s.last.moved \in {"Some", "None"}
                    /\ s.player.x = player.x + 1
              /\ sum <= 75 =>
                    /\ s.frame_time = sum /\ s.last.moved = "NotCalled"
                    /\ << s.player.x, s.player.y, s.player.alive >>
                          = << player.x, player.y, player.alive >>
                    /\ key # "Space" => s.player = player
              /\ key = "Space" /\ s.player.alive =>
                    s.player.velocity = -2 * 67108864 /\ s.last.flap = "Ok"
              /\ key # "Space" => s.last.flap = "NotCalled"

\* C16 witness: a frame that added 75 ms to an accumulator at 0 has not
\* ticked, and has applied the flap.
C16_Witness ==
    /\ mode = "Playing" /\ last.op = "play" /\ last.moved = "NotCalled"
    /\ last.flap = "Ok" /\ frame_time = 75 /\ player.velocity = FLAP_VELOCITY

\* the integer part of the velocity v (a multiple of 2^-26), toward zero
Truncated(v) == IF v >= 0 THEN v \div 67108864 ELSE -((-v) \div 67108864)

\* C17: try_move on an alive player adds 0.2 (in f32) to the velocity if
\* and only if the velocity was below 2.0, never lowers the velocity, adds
\* 1 to x, and adds to y the new velocity truncated toward zero, so nothing
\* while the new velocity is strictly between -1.0 and 1.0.  (The y that
\* would be negative, or is already, is the case of the top boundary,
\* stated apart.)
C17_Gravity ==
    [][TryMove /\ player.alive =>
         /\ player.velocity < 2 * 67108864 =>
               player'.velocity = F32Add(player.velocity, 13421773)
         /\ player.velocity >= 2 * 67108864 => player'.velocity = player.velocity
         /\ player'.velocity >= player.velocity
         /\ player'.x = player.x + 1
         /\ player.y + Truncated(player'.velocity) >= 0 =>
               player'.y = player.y + Truncated(player'.velocity)
         /\ player.y >= 0 /\ -67108864 < player'.velocity
               /\ player'.velocity < 67108864 => player'.y = player.y]_vars

\* C17 witness: a try_move that found the velocity at 0.8 has left it at
\* 1.0 and moved the player from (5, 25) to (6, 26).
C17_Witness ==
    /\ last.op = "try_move" /\ last.moved = "Some" /\ budget.ticks = UnitOps - 1
    /\ player = [x |-> 6, y |-> 26, velocity |-> 67108864, alive |-> TRUE]

\* C18: in every state whose mode is End the player is not alive.
C18_EndedPlayerNotAlive == mode = "End" => ~player.alive

\* C19, as stated: in every state the velocity is between -2.0 and 2.0
\* inclusive, and no flap of play fails with FallingTooFast.
C19_VelocityWithinTwo ==
    /\ -2 * 67108864 <= player.velocity /\ player.velocity <= 2 * 67108864
    /\ last.flap # "FallingTooFast"

\* C19, amended: in every state the velocity is between -2.0 and 2.0000002
\* (2 + 2^-22, the f32 the additions of 0.2 end at), so never above 5.0:
\* no flap of play fails with FallingTooFast, and one that fails, with
\* AlreadyDead, was called on a player that try_move had just killed.
C19_VelocityBounded ==
    /\ -2 * 67108864 <= player.velocity /\ player.velocity <= 2 * 67108864 + 16
    /\ last.flap # "FallingTooFast"
    /\ last.flap = "AlreadyDead" => ~player.alive /\ last.moved = "None"

\* C19 witness: a player that has flapped its way to the first obstacle and
\* fallen through its gap, at the greatest velocity, 2.0000002.
C19_Witness ==
    /\ mode = "Playing" /\ last.op = "play" /\ last.moved = "Some" /\ score = 1
    /\ player.velocity = 2 * 67108864 + 16

\* C20: the mode changes only from Menu to Playing, from Playing to End and
\* from End to Playing; a step that raises the quit request is taken in
\* Menu or End and leaves the mode, and the request is never withdrawn; a
\* frame in Menu or End that does not start a session leaves the player,
\* the score, the collection and the high score unchanged.
C20_ModeChanges ==
    [][/\ mode' # mode =>
             << mode, mode' >> \in {<< "Menu", "Playing" >>, << "Playing", "End" >>,
                                    << "End", "Playing" >>}
       /\ quitting' # quitting =>
             quitting' /\ mode \in {"Menu", "End"} /\ mode' = mode
       /\ (MainMenu \/ Dead) /\ mode' = mode =>
             UNCHANGED << player, score, obstacles, high_score >>]_vars

\* C20 witness: the quit request raised in End, after a session that set
\* the high score.
C20_Witness ==
    /\ quitting /\ mode = "End" /\ last.op = "dead"
    /\ high_score > 0 /\ score = high_score

=============================================================================
